---------------------------- MODULE Spec2Model ----------------------------
(***************************************************************************)
(* The employee registry of src/main.py: the Employee table with its      *)
(* unique employee_code, the single-record endpoints (create_employee,    *)
(* update_employee, delete_employee) and the CSV import bulk_upload, each *)
(* request running in a database session of its own.                      *)
(*                                                                         *)
(* A text (a CSV field, a code, a name) is a sequence of one-character     *)
(* strings, so that str.strip() and float() are computed and not assumed.  *)
(***************************************************************************)
EXTENDS Integers, Sequences, FiniteSets, TLC

\* ------------------------------------------------------------------ bounds

\* Largest primary key the table hands out; a commit that would need a larger
\* one is not taken.
MaxId == 2

\* Data rows (header excluded) of an uploaded file, concurrent specification.
MaxRows == 2

\* Data rows (header excluded) of an uploaded file, one-request-at-a-time
\* specification.
MaxBatchRows == 3

\* ------------------------------------------------------- program constants

\* expected_columns = 5
expected_columns == 5

\* The largest decimal exponent of a finite IEEE double (sys.float_info
\* .max_10_exp): a decimal with more than FloatMax10Exp + 1 integer digits
\* is read by float() as infinity.
FloatMax10Exp == 308

\* ------------------------------------------------------------------- texts

Space == " "

DigitChars == {"0", "1", "2", "3", "4", "5", "6", "7", "8", "9"}

DigitVal(c) ==
    CASE c = "0" -> 0 [] c = "1" -> 1 [] c = "2" -> 2 [] c = "3" -> 3
      [] c = "4" -> 4 [] c = "5" -> 5 [] c = "6" -> 6 [] c = "7" -> 7
      [] c = "8" -> 8 [] c = "9" -> 9

\* str.strip(): leading and trailing whitespace removed.
RECURSIVE LStrip(_)
LStrip(s) == IF s # <<>> /\ Head(s) = Space THEN LStrip(Tail(s)) ELSE s

RECURSIVE RStrip(_)
RStrip(s) ==
    IF s # <<>> /\ s[Len(s)] = Space THEN RStrip(SubSeq(s, 1, Len(s) - 1)) ELSE s

Strip(s) == RStrip(LStrip(s))

\* Python truthiness of a str: the empty string is falsy.
Truthy(s) == s # <<>>

AllDigits(s) == \A i \in 1..Len(s) : s[i] \in DigitChars

RECURSIVE NatVal(_)
NatVal(s) ==
    IF s = <<>> THEN 0
    ELSE 10 * NatVal(SubSeq(s, 1, Len(s) - 1)) + DigitVal(s[Len(s)])

\* The first position of one of the characters cs in s, 0 when there is none.
IndexOf(s, cs) ==
    IF \E i \in 1..Len(s) : s[i] \in cs
    THEN CHOOSE i \in 1..Len(s) : s[i] \in cs /\ \A j \in 1..(i - 1) : s[j] \notin cs
    ELSE 0

Zeros(n) == [i \in 1..n |-> "0"]

\* ------------------------------------------------------- float() and int()

FloatError == [kind |-> "ValueError"]
FloatNaN == [kind |-> "nan"]
FloatInf(neg) == [kind |-> "inf", neg |-> neg]

\* The double for the decimal digits ds with the decimal point after the
\* first `point` of them (point may be <= 0 or > Len(ds)). Only the integer
\* part and whether a fraction is left are kept: int() needs no more.
Decimal(neg, ds, point) ==
    LET nonzero == {i \in 1..Len(ds) : ds[i] # "0"}
        lead == IF nonzero = {} THEN Len(ds)
                ELSE (CHOOSE i \in nonzero : \A j \in nonzero : i <= j) - 1
        ipart == IF point <= 0 THEN <<>>
                 ELSE IF point >= Len(ds) THEN ds \o Zeros(point - Len(ds))
                 ELSE SubSeq(ds, 1, point)
    IN IF nonzero = {}
       THEN [kind |-> "finite", neg |-> neg, int |-> 0, frac |-> FALSE]
       ELSE IF point - lead > FloatMax10Exp + 1
       THEN FloatInf(neg)
       ELSE [kind |-> "finite", neg |-> neg, int |-> NatVal(ipart),
             frac |-> \E i \in nonzero : i > point]

\* float(s) for a stripped text s: [sign] (inf | nan | digits[.digits][e[sign]digits]),
\* anything else raises ValueError.
PyFloat(s) ==
    LET signed == s # <<>> /\ s[1] \in {"-", "+"}
        neg == s # <<>> /\ s[1] = "-"
        body == IF signed THEN Tail(s) ELSE s
        e == IndexOf(body, {"e", "E"})
        mant == IF e = 0 THEN body ELSE SubSeq(body, 1, e - 1)
        expt == IF e = 0 THEN <<>> ELSE SubSeq(body, e + 1, Len(body))
        eneg == expt # <<>> /\ expt[1] = "-"
        edigits == IF expt # <<>> /\ expt[1] \in {"-", "+"} THEN Tail(expt) ELSE expt
        dot == IndexOf(mant, {"."})
        ipart == IF dot = 0 THEN mant ELSE SubSeq(mant, 1, dot - 1)
        fpart == IF dot = 0 THEN <<>> ELSE SubSeq(mant, dot + 1, Len(mant))
        wellformed == /\ AllDigits(ipart) /\ AllDigits(fpart)
                      /\ Len(ipart) + Len(fpart) > 0
                      /\ e = 0 \/ (edigits # <<>> /\ AllDigits(edigits))
        exp10 == IF eneg THEN 0 - NatVal(edigits) ELSE NatVal(edigits)
    IN IF body \in {<<"i", "n", "f">>, <<"i", "n", "f", "i", "n", "i", "t", "y">>}
       THEN FloatInf(neg)
       ELSE IF body = <<"n", "a", "n">> THEN FloatNaN
       ELSE IF ~wellformed THEN FloatError
       ELSE Decimal(neg, ipart \o fpart, Len(ipart) + exp10)

\* int(f): truncation toward zero; OverflowError for an infinity, ValueError
\* for a NaN.
PyInt(f) ==
    CASE f.kind = "inf" -> [raised |-> "OverflowError", value |-> 0]
      [] f.kind = "nan" -> [raised |-> "ValueError", value |-> 0]
      [] f.kind = "finite" ->
            [raised |-> "none", value |-> IF f.neg THEN 0 - f.int ELSE f.int]

\* ------------------------------------------------------------- data model

StrFields == {"name", "employee_code", "position", "department"}

\* EmployeeCreate.check_non_empty_string on the four text fields: a field
\* that is empty or all whitespace is refused. salary is any int.
EmployeeCreateValid(d) ==
    \A f \in StrFields : Truthy(d[f]) /\ Truthy(Strip(d[f]))

\* Employee.model_validate: the table model's own constraint, salary gt=0.
\* Its text fields carry no validator.
EmployeeModelValid(d) == d.salary > 0

\* A row of the employee table.
EmployeeRow(id, d) ==
    [id |-> id, employee_code |-> d.employee_code, name |-> d.name,
     position |-> d.position, department |-> d.department, salary |-> d.salary]

\* The column values of a table row, as EmployeeCreate.model_dump() names them.
ColumnsOf(r) ==
    [name |-> r.name, employee_code |-> r.employee_code, position |-> r.position,
     department |-> r.department, salary |-> r.salary]

Columns == {"name", "employee_code", "position", "department", "salary"}

\* ------------------------------------------------------------ record store

IdsOf(st) == {r.id : r \in st}
CodesOf(st) == {r.employee_code : r \in st}

\* id: Optional[int] primary key of the default SQLite engine: the largest
\* id in the table plus one.
NextId(st) ==
    IF st = {} THEN 1 ELSE (CHOOSE i \in IdsOf(st) : \A j \in IdsOf(st) : j <= i) + 1

\* The INSERTs of a flush, in the order the objects were added. unique=True
\* on employee_code makes the first INSERT of a present code fail.
\* (Variant: the INSERTs of a table without the unique constraint.)
RECURSIVE InsertAllNoUnique(_, _)
InsertAllNoUnique(st, news) ==
    IF news = <<>> THEN [integrity_error |-> FALSE, store |-> st]
    ELSE InsertAllNoUnique(st \cup {EmployeeRow(NextId(st), Head(news))}, Tail(news))

RECURSIVE InsertAll(_, _)
InsertAll(st, news) ==
    IF news = <<>> THEN [integrity_error |-> FALSE, store |-> st]
    ELSE IF Head(news).employee_code \in CodesOf(st)
    THEN [integrity_error |-> TRUE, store |-> st]
    ELSE InsertAll(st \cup {EmployeeRow(NextId(st), Head(news))}, Tail(news))

\* session.commit() of a session holding the new objects `news`: the flush
\* and the COMMIT are one transaction, an IntegrityError leaves the table as
\* it was (the failed transaction is rolled back).
\* (Variant: each INSERT committed on its own, the rows before the failing
\* one stay.)
CommitNewPartial(st, news) == InsertAll(st, news)

\* (Variant: INSERT OR IGNORE, the rows whose code is present are skipped
\* without an error.)
RECURSIVE InsertNew(_, _)
InsertNew(st, news) ==
    IF news = <<>> THEN st
    ELSE IF Head(news).employee_code \in CodesOf(st) THEN InsertNew(st, Tail(news))
    ELSE InsertNew(st \cup {EmployeeRow(NextId(st), Head(news))}, Tail(news))

CommitNewSkipDuplicates(st, news) ==
    [integrity_error |-> FALSE, store |-> InsertNew(st, news)]

CommitNew(st, news) ==
    LET r == InsertAll(st, news)
    IN IF r.integrity_error THEN [integrity_error |-> TRUE, store |-> st] ELSE r

\* session.commit() of update_employee: the UPDATE carries the columns whose
\* value differs from the loaded one, for the row of the loaded id.
\*   outcome "ok"        the row is rewritten (or nothing had changed)
\*   outcome "integrity" employee_code is taken by another row (IntegrityError)
\*   outcome "error"     the row is gone (the UPDATE matches no row, or the
\*                       refresh finds none): any other exception
\* (Variant: no rollback, the columns other than employee_code are written
\* though the UPDATE is refused.)
CommitUpdateNoRollback(st, old, new) ==
    LET changed == {c \in Columns : new[c] # ColumnsOf(old)[c]}
        target == {r \in st : r.id = old.id}
        cur == CHOOSE r \in target : TRUE
        V(c) == IF c \in changed THEN new[c] ELSE cur[c]
        row == [id |-> cur.id, employee_code |-> V("employee_code"),
                name |-> V("name"), position |-> V("position"),
                department |-> V("department"), salary |-> V("salary")]
        kept == [row EXCEPT !.employee_code = cur.employee_code]
    IN IF target = {} THEN [outcome |-> "error", store |-> st]
       ELSE IF /\ "employee_code" \in changed
               /\ new.employee_code \in CodesOf(st \ target)
       THEN [outcome |-> "integrity", store |-> (st \ target) \cup {kept}]
       ELSE [outcome |-> "ok", store |-> (st \ target) \cup {row}]
CommitUpdate(st, old, new) ==
    LET changed == {c \in Columns : new[c] # ColumnsOf(old)[c]}
        target == {r \in st : r.id = old.id}
        cur == CHOOSE r \in target : TRUE
        V(c) == IF c \in changed THEN new[c] ELSE cur[c]
        row == [id |-> cur.id, employee_code |-> V("employee_code"),
                name |-> V("name"), position |-> V("position"),
                department |-> V("department"), salary |-> V("salary")]
    IN IF target = {} THEN [outcome |-> "error", store |-> st]
       ELSE IF /\ "employee_code" \in changed
               /\ new.employee_code \in CodesOf(st \ target)
       THEN [outcome |-> "integrity", store |-> st]
       ELSE [outcome |-> "ok", store |-> (st \ target) \cup {row}]

\* session.delete + session.commit(): DELETE of the row of the loaded id; a
\* DELETE that matches no row is not an error.
CommitDelete(st, old) == {r \in st : r.id # old.id}

\* -------------------------------------------------------- bulk_upload rows

\* 4. the salary check: salary = int(float(salary_str)), a negative value
\* raises ValueError; `except ValueError` catches nothing else.
SalaryCheck(salary_str) ==
    LET f == PyFloat(salary_str)
        n == PyInt(f)
    IN IF f.kind = "ValueError" THEN [raised |-> "ValueError", salary |-> 0]
       ELSE IF n.raised # "none" THEN [raised |-> n.raised, salary |-> 0]
       ELSE IF n.value < 0 THEN [raised |-> "ValueError", salary |-> 0]
       ELSE [raised |-> "none", salary |-> n.value]

\* The request's state before the row loop (lines 210-214); session_new are
\* the objects session.add() has put in the session, in order.
NewUpload ==
    [row_number |-> 0, error_entries |-> <<>>, current_batch_codes |-> {},
     session_new |-> <<>>, success_count |-> 0]

\* The locals of a request are its own: whatever an earlier request left
\* (`prev`), the loop starts from the state of lines 210-214.
\* (Variant: current_batch_codes outlives the request.)
RequestLocalsKeepCodes(prev) ==
    [NewUpload EXCEPT !.current_batch_codes = prev.current_batch_codes]
RequestLocals(prev) == NewUpload

\* row_num_display = row_number + 2: the header is row 1.
\* (Variant: the first data row is row 1.)
RowNumDisplayFromOne(row_number) == row_number + 1
RowNumDisplay(row_number) == row_number + 2

\* An entry of error_entries. The error texts:
\*   insufficient_fields  "資料欄位不足"
\*   required_fields      "所有欄位 ... 均為必填，不能為空。"
\*   salary_format        "薪資格式錯誤: '{salary_str}' 不是有效的正整數。"
\*   duplicate_in_upload  "員工編號 '{code}' 在本次上傳中重複。"
\*   validation_error     "資料驗證錯誤: {e}"
ErrorEntry(row_num_display, kind, text, row) ==
    [row |-> row_num_display, error |-> [kind |-> kind, text |-> text], data |-> row]

\* error_entries.append({...}); continue
RowError(u, row, kind, text) ==
    [u EXCEPT !.row_number = @ + 1,
              !.error_entries =
                  Append(@, ErrorEntry(RowNumDisplay(u.row_number), kind, text, row))]

\* 5. if code in current_batch_codes
\* (Variant: no duplicate check.)
SeenInBatchNever(u, code) == FALSE
SeenInBatch(u, code) == code \in u.current_batch_codes

\* current_batch_codes.add(code); session.add(new_employee); success_count += 1
\* (Variant: success_count is not incremented.)
StageRowNoCount(u, code, employee_data) ==
    [u EXCEPT !.row_number = @ + 1,
              !.current_batch_codes = @ \cup {code},
              !.session_new = Append(@, employee_data)]
StageRow(u, code, employee_data) ==
    [u EXCEPT !.row_number = @ + 1,
              !.current_batch_codes = @ \cup {code},
              !.session_new = Append(@, employee_data),
              !.success_count = @ + 1]

\* current_batch_codes.add(code), then the model validation raises: the
\* error is recorded and the code removed again.
\* (Variant: the code stays in current_batch_codes.)
ValidationFailedKeepCode(u, row, code) ==
    [u EXCEPT !.row_number = @ + 1,
              !.current_batch_codes = @ \cup {code},
              !.error_entries =
                  Append(@, ErrorEntry(RowNumDisplay(u.row_number),
                                       "validation_error", <<>>, row))]
ValidationFailed(u, row, code) ==
    [u EXCEPT !.row_number = @ + 1,
              !.current_batch_codes = (@ \cup {code}) \ {code},
              !.error_entries =
                  Append(@, ErrorEntry(RowNumDisplay(u.row_number),
                                       "validation_error", <<>>, row))]

\* 3. if not name or not code or not position or not department or not
\* salary_str
\* (Variant: the fields are looked at only when the salary text is a valid
\* salary, as if the salary check came first.)
RequiredMissingAfterSalary(name, code, position, department, salary_str) ==
    /\ SalaryCheck(salary_str).raised = "none"
    /\ ~Truthy(name) \/ ~Truthy(code) \/ ~Truthy(position) \/ ~Truthy(department)
RequiredMissing(name, code, position, department, salary_str) ==
    ~Truthy(name) \/ ~Truthy(code) \/ ~Truthy(position)
        \/ ~Truthy(department) \/ ~Truthy(salary_str)

\* One pass of the loop body over `row`, the (row_number+1)-th data row:
\* the loop state after it, or the exception that leaves the loop. (The
\* handler around the field extraction, lines 227-229, has nothing to
\* catch: the fields are strings.)
ProcessRow(u, row) ==
    IF Len(row) < expected_columns
    THEN [raised |-> "none", upload |-> RowError(u, row, "insufficient_fields", <<>>)]
    ELSE
    LET name == Strip(row[1])
        code == Strip(row[2])
        position == Strip(row[3])
        department == Strip(row[4])
        salary_str == Strip(row[5])
        chk == SalaryCheck(salary_str)
        employee_data ==
            [name |-> name, employee_code |-> code, position |-> position,
             department |-> department, salary |-> chk.salary]
    IN IF RequiredMissing(name, code, position, department, salary_str)
       THEN [raised |-> "none", upload |-> RowError(u, row, "required_fields", <<>>)]
       ELSE IF chk.raised = "ValueError"
       THEN [raised |-> "none", upload |-> RowError(u, row, "salary_format", salary_str)]
       ELSE IF chk.raised # "none" THEN [raised |-> chk.raised, upload |-> u]
       ELSE IF SeenInBatch(u, code)
       THEN [raised |-> "none", upload |-> RowError(u, row, "duplicate_in_upload", code)]
       ELSE IF EmployeeCreateValid(employee_data) /\ EmployeeModelValid(employee_data)
       THEN [raised |-> "none", upload |-> StageRow(u, code, employee_data)]
       ELSE [raised |-> "none", upload |-> ValidationFailed(u, row, code)]

\* if len(header) < expected_columns: the request fails.
\* (Variant: no header check.)
HeaderAlwaysOk(header) == TRUE
HeaderOk(header) == Len(header) >= expected_columns

BatchError ==
    [row |-> "Batch Error", error |-> [kind |-> "batch_collision", text |-> <<>>],
     data |-> "N/A"]

\* The response after an IntegrityError at the commit (lines 279-281).
\* (Variant: the per-row errors are left out.)
CollisionResponseDropRows(u) ==
    [status |-> 200, message |-> "batch_failed", successful_uploads |-> 0,
     errors |-> <<BatchError>>]
\* (Variant: the loop's success_count is returned after the rollback.)
CollisionResponseKeepCount(u) ==
    [status |-> 200, message |-> "batch_failed",
     successful_uploads |-> u.success_count,
     errors |-> <<BatchError>> \o u.error_entries]
CollisionResponse(u) ==
    [status |-> 200, message |-> "batch_failed", successful_uploads |-> 0,
     errors |-> <<BatchError>> \o u.error_entries]

\* The response after the commit (lines 287-288).
CompletedResponse(u) ==
    [status |-> 200, message |-> "completed",
     successful_uploads |-> u.success_count, errors |-> u.error_entries]

\* ------------------------------------------------------------------ inputs

N == <<"n">>
P == <<"p">>
D == <<"d">>
CodeA == <<"A">>
CodeB == <<"B">>
Blank == <<" ">>

Header == <<<<"h", "1">>, <<"h", "2">>, <<"h", "3">>, <<"h", "4">>, <<"h", "5">>>>
ShortHeader == <<<<"h", "1">>, <<"h", "2">>, <<"h", "3">>, <<"h", "4">>>>

Row(name, code, salary_text) == <<name, code, P, D, salary_text>>

RowA1 == Row(N, CodeA, <<"1">>)
RowB1 == Row(N, CodeB, <<"1">>)

\* Rows of the concurrent specification.
SmallPool == {RowA1, RowB1}

\* Rows of the one-request-at-a-time specification: padded fields, a sixth
\* column, too few columns, each of the five fields blank in turn, and the
\* salary texts.
RichPool ==
    {RowA1,
     Row(N, <<" ", "A", " ">>, <<" ", "2">>),
     <<N, CodeB, P, D, <<"2", ".", "7">>, <<"x">>>>,
     <<N, CodeA>>,
     Row(Blank, CodeA, <<"i", "n", "f">>),
     Row(N, <<>>, <<"a", "b", "c">>),
     <<N, CodeA, Blank, D, <<"1">>>>,
     <<N, CodeB, P, <<>>, <<"-", "5">>>>,
     Row(N, CodeB, Blank),
     Row(N, CodeA, <<"a", "b", "c">>),
     Row(N, CodeA, <<"-", "5">>),
     Row(N, CodeB, <<"-", "0", ".", "5">>),
     Row(N, CodeA, <<"i", "n", "f">>)}

SeqsUpTo(S, n) == UNION {[1..k -> S] : k \in 0..n}

\* An upload: whether its bytes are valid UTF-8, and the rows csv.reader
\* yields from the decoded text (the header first).
Files(pool, n) ==
    {[utf8 |-> FALSE, rows |-> <<Header, RowA1>>],
     [utf8 |-> TRUE, rows |-> <<>>],
     [utf8 |-> TRUE, rows |-> <<ShortHeader, RowA1>>]}
    \cup {[utf8 |-> TRUE, rows |-> <<Header>> \o rs] : rs \in SeqsUpTo(pool, n)}

\* Rows of the resubmission specification: two codes, a padded field, a
\* row each of the loop's two kinds of rejection that follow the strip.
RetryPool ==
    {RowA1,
     Row(N, <<" ", "A", " ">>, <<" ", "2">>),
     RowB1,
     Row(N, CodeA, <<"a", "b", "c">>),
     Row(N, CodeB, <<"-", "0", ".", "5">>)}

SmallFiles == Files(SmallPool, MaxRows)
RichFiles == Files(RichPool, MaxBatchRows)
RetryFiles == Files(RetryPool, MaxBatchRows)

DataRows(file) == Tail(file.rows)

Emp(name, code, salary) ==
    [name |-> name, employee_code |-> code, position |-> P, department |-> D,
     salary |-> salary]

\* Request bodies of create_employee and update_employee.
Payloads ==
    {Emp(N, CodeA, 1), Emp(N, CodeA, 0), Emp(N, CodeB, 1), Emp(Blank, CodeB, 1)}

\* ------------------------------------------------------------------- state

VARIABLES
    store,         \* the rows of the employee table (committed)
    pc,            \* where each request stands
    request,       \* the request each process handles
    upload,        \* bulk_upload's loop state
    old_employee,  \* the row session.get() loaded (update, delete)
    response       \* the response of a finished request

vars == <<store, pc, request, upload, old_employee, response>>

Procs == {1, 2}

NoRequest == [op |-> "none"]
NoEmployee == [id |-> 0]
NoResponse == [status |-> 0]

Init ==
    /\ store = {}
    /\ pc = [p \in Procs |-> "idle"]
    /\ request = [p \in Procs |-> NoRequest]
    /\ upload = [p \in Procs |-> NewUpload]
    /\ old_employee = [p \in Procs |-> NoEmployee]
    /\ response = [p \in Procs |-> NoResponse]

HTTPException(status_code, detail) == [status |-> status_code, detail |-> detail]

Finish(p, resp) ==
    /\ pc' = [pc EXCEPT ![p] = "done"]
    /\ response' = [response EXCEPT ![p] = resp]

\* The table may not grow past the largest id of the model.
WithinIds(st) == IdsOf(st) \subseteq 1..MaxId

\* ---------------------------------------------------------- create_employee

create_employee_body(p, employee) ==
    /\ request' = [request EXCEPT ![p] = [op |-> "create_employee", employee |-> employee]]
    /\ LET r == CommitNew(store, <<employee>>)
       IN IF ~EmployeeCreateValid(employee)
          THEN store' = store /\ Finish(p, HTTPException(422, "validation"))
          ELSE IF ~EmployeeModelValid(employee)
          THEN store' = store /\ Finish(p, HTTPException(500, "ValidationError"))
          ELSE IF r.integrity_error
          THEN store' = store /\ Finish(p, HTTPException(400, "code exists"))
          ELSE /\ WithinIds(r.store)
               /\ store' = r.store
               /\ Finish(p, [status |-> 201,
                             body |-> EmployeeRow(NextId(store), employee)])
    /\ UNCHANGED <<upload, old_employee>>

create_employee(p) ==
    /\ pc[p] = "idle"
    /\ \E employee \in Payloads : create_employee_body(p, employee)

\* ---------------------------------------------------------- update_employee

update_employee_load(p, employee_id, employee_update) ==
    /\ request' = [request EXCEPT ![p] =
                      [op |-> "update_employee", employee_id |-> employee_id,
                       employee_update |-> employee_update]]
    /\ IF ~EmployeeCreateValid(employee_update)
       THEN Finish(p, HTTPException(422, "validation")) /\ UNCHANGED old_employee
       ELSE IF employee_id \notin IdsOf(store)
       THEN Finish(p, HTTPException(404, "Employee not found")) /\ UNCHANGED old_employee
       ELSE /\ old_employee' = [old_employee EXCEPT ![p] =
                                   CHOOSE r \in store : r.id = employee_id]
            /\ pc' = [pc EXCEPT ![p] = "update"]
            /\ UNCHANGED response
    /\ UNCHANGED <<store, upload>>

update_employee_get(p) ==
    /\ pc[p] = "idle"
    /\ \E employee_id \in 1..MaxId, employee_update \in Payloads :
           update_employee_load(p, employee_id, employee_update)

update_employee_commit(p) ==
    /\ pc[p] = "update"
    /\ LET r == CommitUpdate(store, old_employee[p], request[p].employee_update)
       IN /\ store' = r.store
          /\ Finish(p, CASE r.outcome = "ok" ->
                              [status |-> 200,
                               body |-> CHOOSE e \in r.store : e.id = old_employee[p].id]
                         [] r.outcome = "integrity" -> HTTPException(400, "code in use")
                         [] r.outcome = "error" -> HTTPException(500, "storage error"))
    /\ UNCHANGED <<request, upload, old_employee>>

\* ---------------------------------------------------------- delete_employee

delete_employee_load(p, employee_id) ==
    /\ request' = [request EXCEPT ![p] =
                      [op |-> "delete_employee", employee_id |-> employee_id]]
    /\ IF employee_id \notin IdsOf(store)
       THEN Finish(p, HTTPException(404, "Employee not found")) /\ UNCHANGED old_employee
       ELSE /\ old_employee' = [old_employee EXCEPT ![p] =
                                   CHOOSE r \in store : r.id = employee_id]
            /\ pc' = [pc EXCEPT ![p] = "delete"]
            /\ UNCHANGED response
    /\ UNCHANGED <<store, upload>>

delete_employee_get(p) ==
    /\ pc[p] = "idle"
    /\ \E employee_id \in 1..MaxId : delete_employee_load(p, employee_id)

delete_employee_commit(p) ==
    /\ pc[p] = "delete"
    /\ store' = CommitDelete(store, old_employee[p])
    /\ Finish(p, [status |-> 204])
    /\ UNCHANGED <<request, upload, old_employee>>

\* -------------------------------------------------------------- bulk_upload

\* Lines 192-214: decode, read the header, check it, set up the loop.
bulk_upload_begin(p, files) ==
    /\ pc[p] = "idle"
    /\ \E file \in files :
        /\ request' = [request EXCEPT ![p] =
                          [op |-> "bulk_upload", file |-> file, resubmission |-> FALSE]]
        /\ IF ~file.utf8
           THEN Finish(p, HTTPException(400, "encoding"))
           ELSE IF file.rows = <<>>
           THEN Finish(p, HTTPException(400, "empty"))
           ELSE IF ~HeaderOk(Head(file.rows))
           THEN Finish(p, HTTPException(400, "header"))
           ELSE /\ pc' = [pc EXCEPT ![p] =
                            IF DataRows(file) = <<>> THEN "commit" ELSE "rows"]
                /\ UNCHANGED response
    /\ UNCHANGED <<store, upload, old_employee>>

\* Lines 216-269: one pass of the row loop. An exception no handler of the
\* loop catches ends the request with a server error; the session is closed
\* without a commit.
bulk_upload_row(p) ==
    /\ pc[p] = "rows"
    /\ LET rows == DataRows(request[p].file)
           r == ProcessRow(upload[p], rows[upload[p].row_number + 1])
       IN IF r.raised # "none"
          THEN /\ Finish(p, HTTPException(500, r.raised))
               /\ UNCHANGED upload
          ELSE /\ upload' = [upload EXCEPT ![p] = r.upload]
               /\ pc' = [pc EXCEPT ![p] =
                            IF r.upload.row_number = Len(rows) THEN "commit" ELSE "rows"]
               /\ UNCHANGED response
    /\ UNCHANGED <<store, request, old_employee>>

\* Lines 272-288: the one commit, and the response.
bulk_upload_commit(p) ==
    /\ pc[p] = "commit"
    /\ LET r == CommitNew(store, upload[p].session_new)
       IN IF r.integrity_error
          THEN /\ store' = r.store
               /\ Finish(p, CollisionResponse(upload[p]))
          ELSE /\ WithinIds(r.store)
               /\ store' = r.store
               /\ Finish(p, CompletedResponse(upload[p]))
    /\ UNCHANGED <<request, upload, old_employee>>

\* The response is sent and the session closed: the process is free again.
Return(p) ==
    /\ pc[p] = "done"
    /\ pc' = [pc EXCEPT ![p] = "idle"]
    /\ request' = [request EXCEPT ![p] = NoRequest]
    /\ upload' = [upload EXCEPT ![p] = NewUpload]
    /\ old_employee' = [old_employee EXCEPT ![p] = NoEmployee]
    /\ response' = [response EXCEPT ![p] = NoResponse]
    /\ UNCHANGED store

\* The client of an upload that was answered with the batch error sends the
\* same file again: a new request, with a new session and new locals (lines
\* 210-214); the file passed the checks of lines 192-208 before and passes
\* them again. `response` keeps the answer to the first request until the
\* second is answered.
bulk_upload_again(p) ==
    /\ pc[p] = "done"
    /\ request[p].op = "bulk_upload"
    /\ response[p].status = 200
    /\ response[p].message = "batch_failed"
    /\ request' = [request EXCEPT ![p].resubmission = TRUE]
    /\ upload' = [upload EXCEPT ![p] = RequestLocals(@)]
    /\ pc' = [pc EXCEPT ![p] =
                 IF DataRows(request[p].file) = <<>> THEN "commit" ELSE "rows"]
    /\ UNCHANGED <<store, old_employee, response>>

\* ---------------------------------------------------------- specifications

\* Two clients, every endpoint, any interleaving of their database steps.
Next ==
    \E p \in Procs :
        \/ create_employee(p)
        \/ update_employee_get(p)
        \/ update_employee_commit(p)
        \/ delete_employee_get(p)
        \/ delete_employee_commit(p)
        \/ bulk_upload_begin(p, SmallFiles)
        \/ bulk_upload_row(p)
        \/ bulk_upload_commit(p)
        \/ Return(p)

Spec == Init /\ [][Next]_vars

\* One client uploading file after file.
NextBatch ==
    \/ bulk_upload_begin(1, RichFiles)
    \/ bulk_upload_row(1)
    \/ bulk_upload_commit(1)
    \/ Return(1)

SpecBatch == Init /\ [][NextBatch]_vars

\* One client uploading file after file, and sending a file again when its
\* upload was answered with the batch error.
NextRetry ==
    \/ bulk_upload_begin(1, RetryFiles)
    \/ bulk_upload_row(1)
    \/ bulk_upload_commit(1)
    \/ bulk_upload_again(1)
    \/ Return(1)

SpecRetry == Init /\ [][NextRetry]_vars

\* ------------------------------------------------------------------ claims

Uploading(p) == request[p].op = "bulk_upload"

\* A file bulk_upload refuses before its row loop.
Fatal(file) ==
    ~file.utf8 \/ file.rows = <<>> \/ Len(Head(file.rows)) < 5

StagedCodes(p) ==
    {upload[p].session_new[i].employee_code : i \in 1..Len(upload[p].session_new)}

\* The staged objects of p collide with the table as it is now.
Collides(p) == StagedCodes(p) \cap CodesOf(store) # {}

\* The step in which p's upload runs its commit.
CommitStep(p) == Uploading(p) /\ pc[p] = "commit" /\ pc'[p] = "done"

\* The table after the step holds the table before it and every staged
\* object of p as one new row.
AllStagedAdded(p) ==
    LET staged == upload[p].session_new
        added == store' \ store
    IN /\ store \subseteq store'
       /\ Cardinality(added) = Len(staged)
       /\ {ColumnsOf(r) : r \in added} = {staged[i] : i \in 1..Len(staged)}

\* C1: in every reachable state, after any interleaving of create_employee,
\* update_employee, delete_employee and bulk_upload requests, no two rows of
\* the employee table have the same employee_code.
C1_UniqueCodes ==
    \A r1, r2 \in store : r1.employee_code = r2.employee_code => r1 = r2

\* Two rows are stored and an update that would have given one the code of
\* the other was refused.
C1_Witness ==
    /\ Cardinality(store) = 2
    /\ \E p \in Procs :
          /\ pc[p] = "done"
          /\ request[p].op = "update_employee"
          /\ response[p].status = 400

\* C2: bulk_upload persists its staged rows all or nothing: the commit step
\* leaves the table either with every staged row added to the prior rows or
\* exactly as it was, and when a staged code collides with an existing row
\* nothing of the batch is created; no other step of the upload writes.
C2_AllOrNothing ==
    [][\A p \in Procs :
          /\ CommitStep(p) =>
                /\ store' = store \/ AllStagedAdded(p)
                /\ Collides(p) => store' = store
          /\ (request'[p].op = "bulk_upload" /\ pc[p] # "commit") => store' = store
      ]_vars

\* A commit was refused for an upload that had staged two rows, one of them
\* with a code the table does not hold.
C2_Witness ==
    /\ pc[1] = "done" /\ Uploading(1) /\ response[1].status = 200
    /\ response[1].message = "batch_failed"
    /\ Len(upload[1].session_new) >= 2
    /\ StagedCodes(1) \ CodesOf(store) # {}

\* C3: when the commit is refused for a collision with existing data, the
\* request still answers normally (status 200) with successful_uploads 0
\* and an error list made of exactly one "Batch Error" entry followed by
\* every per-row error of the loop, one for each data row that was not
\* staged.
C3_CollisionReported ==
    [][\A p \in Procs :
          (CommitStep(p) /\ Collides(p)) =>
             LET r == response'[p]
                 u == upload[p]
             IN /\ r.status = 200
                /\ r.successful_uploads = 0
                /\ Len(r.errors) = Len(u.error_entries) + 1
                /\ Head(r.errors).row = "Batch Error"
                /\ Tail(r.errors) = u.error_entries
                /\ \A i \in 2..Len(r.errors) : r.errors[i].error.kind # "batch_collision"
                /\ Len(u.error_entries) =
                      Len(DataRows(request[p].file)) - Len(u.session_new)
      ]_vars

\* A refused commit reported together with at least one per-row error.
C3_Witness ==
    /\ pc[1] = "done" /\ Uploading(1) /\ response[1].status = 200
    /\ response[1].message = "batch_failed"
    /\ Len(response[1].errors) >= 2

\* C4: for every batch: after a successful commit the error entries plus
\* successful_uploads number the data rows; after a commit refused for a
\* collision successful_uploads is 0 and the error entries number the data
\* rows that were not staged plus one.
C4_Counts ==
    \A p \in Procs :
        (pc[p] = "done" /\ Uploading(p) /\ response[p].status = 200) =>
            LET r == response[p]
                n == Len(DataRows(request[p].file))
            IN /\ r.message = "completed" =>
                     Len(r.errors) + r.successful_uploads = n
               /\ r.message = "batch_failed" =>
                     /\ r.successful_uploads = 0
                     /\ Len(r.errors) = (n - Len(upload[p].session_new)) + 1

\* A committed batch of three data rows with both a success and an error.
C4_Witness ==
    /\ pc[1] = "done" /\ Uploading(1) /\ response[1].status = 200
    /\ response[1].message = "completed"
    /\ Len(DataRows(request[1].file)) = 3
    /\ response[1].successful_uploads >= 1
    /\ Len(response[1].errors) >= 1

\* C5: a per-row validation failure never aborts a bulk_upload: whatever the
\* salary texts of its rows, an upload that passed the header check
\* processes every data row and ends with a normal outcome.
C5_NeverAborts ==
    \A p \in Procs :
        (pc[p] = "done" /\ Uploading(p) /\ ~Fatal(request[p].file)) =>
            /\ response[p].status = 200
            /\ upload[p].row_number = Len(DataRows(request[p].file))

\* The salary text of a complete row is not numeric, or is a negative number.
NegativeOrNotNumeric(row) ==
    /\ Len(row) >= 5
    /\ \A i \in 1..5 : Strip(row[i]) # <<>>
    /\ LET f == PyFloat(Strip(row[5]))
       IN \/ f.kind = "ValueError"
          \/ f.kind = "inf" /\ f.neg
          \/ f.kind = "finite" /\ f.neg /\ (f.int > 0 \/ f.frac)

\* C6: every processed data row with at least 5 columns, no blank field and
\* a salary text that is not numeric or is negative (such as '-0.5') has the
\* salary-format error naming that text, and is not staged.
C6_SalaryFormatError ==
    \A p \in Procs :
        Uploading(p) =>
            LET rows == DataRows(request[p].file)
                u == upload[p]
                bad == {i \in 1..u.row_number : NegativeOrNotNumeric(rows[i])}
            IN /\ \A i \in bad :
                     \E k \in 1..Len(u.error_entries) :
                         /\ u.error_entries[k].row = i + 1
                         /\ u.error_entries[k].error =
                               [kind |-> "salary_format", text |-> Strip(rows[i][5])]
               /\ Len(u.session_new) <= u.row_number - Cardinality(bad)

\* C7: every row of the employee table has non-blank name, employee_code,
\* position and department and a salary greater than 0, whichever endpoint
\* wrote it.
C7_FieldInvariants ==
    \A r \in store :
        /\ \A f \in StrFields : Strip(r[f]) # <<>>
        /\ r.salary > 0

\* The data rows of the two pools; what follows is worked out once for
\* each of them.
PoolRows == RichPool \cup SmallPool

\* The data rows that pass every validation of the loop but the duplicate
\* check.
PassingRows ==
    {row \in PoolRows :
        /\ Len(row) >= 5
        /\ \A i \in 1..5 : Strip(row[i]) # <<>>
        /\ SalaryCheck(Strip(row[5])).raised = "none"
        /\ SalaryCheck(Strip(row[5])).salary > 0}

RowPasses(row) == row \in PassingRows

\* The trimmed code of a data row of five columns or more.
RowCode == [row \in {r \in PoolRows : Len(r) >= 5} |-> Strip(row[2])]

RowDataOf ==
    [row \in PassingRows |->
        [name |-> Strip(row[1]), employee_code |-> Strip(row[2]),
         position |-> Strip(row[3]), department |-> Strip(row[4]),
         salary |-> SalaryCheck(Strip(row[5])).salary]]

RowData(row) == RowDataOf[row]

\* C8: within one upload first-seen wins: the staged objects have distinct
\* codes and are, in order, the earliest valid row of each code; each later
\* valid row of a code has exactly one error entry, the duplicate error
\* naming the code.
C8_FirstSeenWins ==
    \A p \in Procs :
        Uploading(p) =>
            LET rows == DataRows(request[p].file)
                u == upload[p]
                Code(i) == RowCode[rows[i]]
                valid == {i \in 1..u.row_number : RowPasses(rows[i])}
                first == {i \in valid : \A j \in valid : Code(j) = Code(i) => i <= j}
                staged == u.session_new
            IN /\ \A a, b \in 1..Len(staged) :
                     staged[a].employee_code = staged[b].employee_code => a = b
               /\ Len(staged) = Cardinality(first)
               /\ \A a \in 1..Len(staged) :
                     \E i \in first :
                         /\ staged[a] = RowData(rows[i])
                         /\ Cardinality({j \in first : j < i}) = a - 1
               /\ \A i \in valid \ first :
                     LET es == {k \in 1..Len(u.error_entries) :
                                   u.error_entries[k].row = i + 1}
                     IN /\ Cardinality(es) = 1
                        /\ \A k \in es :
                              u.error_entries[k].error =
                                 [kind |-> "duplicate_in_upload", text |-> Code(i)]

\* Three valid rows with codes A, B, A were processed: two objects are
\* staged and the one error is for the fourth row of the file.
C8_Witness ==
    /\ Uploading(1) /\ upload[1].row_number = 3
    /\ LET rows == DataRows(request[1].file)
       IN /\ \A i \in 1..3 : RowPasses(rows[i])
          /\ Strip(rows[1][2]) = CodeA /\ Strip(rows[2][2]) = CodeB
          /\ Strip(rows[3][2]) = CodeA
          /\ rows[1] # rows[3]
    /\ Len(upload[1].session_new) = 2
    /\ Len(upload[1].error_entries) = 1
    /\ upload[1].error_entries[1].row = 4

\* C9: a request-fatal input (bytes that are not UTF-8, no rows at all, a
\* header of fewer than 5 columns) fails the request before any data row:
\* the request is finished with status 400 and no error list, no row was
\* processed or staged, no commit is reached, and the table is unchanged.
C9_RequestFatal ==
    [][\A p \in Procs :
          (request'[p].op = "bulk_upload" /\ Fatal(request'[p].file)) =>
             /\ pc'[p] = "done"
             /\ response'[p] \in {HTTPException(400, "encoding"),
                                  HTTPException(400, "empty"),
                                  HTTPException(400, "header")}
             /\ upload'[p] = NewUpload
             /\ pc[p] = "idle" => store' = store
      ]_vars

\* An upload with a four-column header and a data row was refused, above a
\* table that holds a row.
C9_Witness ==
    /\ pc[1] = "done" /\ Uploading(1)
    /\ request[1].file.rows # <<>>
    /\ Len(Head(request[1].file.rows)) = 4
    /\ Len(request[1].file.rows) = 2
    /\ response[1].status = 400
    /\ store # {}

\* C10: concurrent uploads with overlapping codes are safe: whenever an
\* upload commits, in any interleaving with the other client, it persists
\* all of its staged rows or none; if a staged code is by then in the table
\* (the other upload persisted it) it persists none and reports zero
\* successes with the batch-level collision error first; no code is ever
\* stored twice.
C10_ConcurrentUploads ==
    [][\A p \in Procs :
          CommitStep(p) =>
             /\ \A r1, r2 \in store' : r1.employee_code = r2.employee_code => r1 = r2
             /\ Collides(p) =>
                   /\ store' = store
                   /\ response'[p].status = 200
                   /\ response'[p].message = "batch_failed"
                   /\ response'[p].successful_uploads = 0
                   /\ Head(response'[p].errors) = BatchError
             /\ ~Collides(p) =>
                   /\ AllStagedAdded(p)
                   /\ response'[p].successful_uploads = Len(upload[p].session_new)
      ]_vars

\* Both clients uploaded batches sharing a code: the first persisted it, the
\* second, which had staged a further code too, lost and persisted nothing.
C10_Witness ==
    /\ pc[1] = "done" /\ pc[2] = "done" /\ Uploading(1) /\ Uploading(2)
    /\ response[1].status = 200 /\ response[1].message = "completed"
    /\ response[1].successful_uploads >= 1
    /\ response[2].status = 200 /\ response[2].message = "batch_failed"
    /\ StagedCodes(1) \cap StagedCodes(2) # {}
    /\ StagedCodes(2) \ CodesOf(store) # {}

\* C11: the successful_uploads an upload returns is the number of rows its
\* request added to the table: the commit step, the only step of the request
\* that writes, keeps every prior row and adds exactly successful_uploads
\* rows, when the commit succeeds and when it is refused.
C11_SuccessCountIsAdded ==
    [][\A p \in Procs :
          /\ CommitStep(p) =>
                /\ store \subseteq store'
                /\ response'[p].status = 200
                /\ Cardinality(store' \ store) = response'[p].successful_uploads
          /\ (request'[p].op = "bulk_upload" /\ ~CommitStep(p)) => store' = store
      ]_vars

\* A refused commit of a request whose loop had counted two successes: zero
\* is returned, and the table holds the one row it held.
C11_Witness ==
    /\ pc[1] = "done" /\ Uploading(1) /\ response[1].status = 200
    /\ response[1].message = "batch_failed"
    /\ upload[1].success_count = 2
    /\ response[1].successful_uploads = 0
    /\ Cardinality(store) = 1

\* p is answering the resubmission of a file whose first request was
\* answered with the batch error; response[p] is still that first answer.
Resubmitted(p) ==
    /\ Uploading(p)
    /\ request[p].resubmission
    /\ pc[p] \in {"rows", "commit"}

\* C12: rejection is idempotent: when a file whose upload was rolled back
\* for a collision is sent again with the table as the rollback left it, the
\* second request is answered only by its commit step, with the first
\* request's answer again (the batch error first, then the same per-row
\* errors, successful_uploads 0), and the table stays as it is.
C12_RejectionIdempotent ==
    [][\A p \in Procs :
          Resubmitted(p) =>
             /\ pc'[p] = "done" =>
                   /\ pc[p] = "commit"
                   /\ response'[p] = response[p]
                   /\ response'[p].successful_uploads = 0
                   /\ Head(response'[p].errors) = BatchError
             /\ store' = store
      ]_vars

\* The second request of a file with three data rows is answered: the batch
\* error, a per-row error, two staged rows of which one is new to the table.
C12_Witness ==
    /\ pc[1] = "done" /\ Uploading(1) /\ request[1].resubmission
    /\ response[1].status = 200 /\ response[1].message = "batch_failed"
    /\ Len(response[1].errors) = 2
    /\ Len(upload[1].session_new) = 2
    /\ StagedCodes(1) \ CodesOf(store) # {}

\* The data rows processed so far that were not staged: all but the
\* earliest passing row of each code.
NotStaged(p) ==
    LET rows == DataRows(request[p].file)
        valid == {i \in 1..upload[p].row_number : RowPasses(rows[i])}
        first == {i \in valid :
                     \A j \in valid : RowCode[rows[j]] = RowCode[rows[i]] => i <= j}
    IN (1..upload[p].row_number) \ first

\* The per-row entries `es` are those of the data rows `rejected` of `rows`:
\* the entry of the k-th data row has number k+1 and carries that row, and
\* the numbers increase strictly along the list.
NumberedInOrder(es, rows, rejected) ==
    /\ {es[k].row : k \in 1..Len(es)} = {i + 1 : i \in rejected}
    /\ \A k \in 1..Len(es) : es[k].data = rows[es[k].row - 1]
    /\ \A k, l \in 1..Len(es) : k < l => es[k].row < es[l].row

\* C13: the per-row errors of an upload carry the display number of their
\* row (the k-th data row is number k+1, the header being row 1) and stand
\* in strictly increasing row order, one entry at most for a data row, in
\* the loop's list and in the error list of the response.
C13_RowNumbers ==
    \A p \in Procs :
        Uploading(p) =>
            LET rows == DataRows(request[p].file)
            IN /\ NumberedInOrder(upload[p].error_entries, rows, NotStaged(p))
               /\ (pc[p] = "done" /\ response[p].status = 200) =>
                     NumberedInOrder(IF response[p].message = "batch_failed"
                                     THEN Tail(response[p].errors)
                                     ELSE response[p].errors,
                                     rows, NotStaged(p))

\* Three data rows, the second staged: the response lists row 2, then row 4.
C13_Witness ==
    /\ pc[1] = "done" /\ Uploading(1) /\ response[1].status = 200
    /\ response[1].message = "completed"
    /\ response[1].successful_uploads = 1
    /\ Len(response[1].errors) = 2
    /\ response[1].errors[1].row = 2
    /\ response[1].errors[2].row = 4

\* The first of the three checks on the row alone that a data row fails,
\* in the order field count, required fields, salary format ("none": it
\* fails none of them).
RowFailure ==
    [row \in PoolRows |->
        IF Len(row) < 5 THEN "insufficient_fields"
        ELSE IF \E j \in 1..5 : Strip(row[j]) = <<>> THEN "required_fields"
        ELSE IF SalaryCheck(Strip(row[5])).raised = "ValueError" THEN "salary_format"
        ELSE "none"]

\* The first of the four checks the i-th data row of p's file fails, the
\* duplicate in the upload coming last. A code counts as seen when an
\* earlier row that passes every validation carries it.
FirstFailure(p, i) ==
    LET rows == DataRows(request[p].file)
        row == rows[i]
    IN IF RowFailure[row] # "none" THEN RowFailure[row]
       ELSE IF \E j \in 1..(i - 1) :
                   RowPasses(rows[j]) /\ RowCode[rows[j]] = RowCode[row]
       THEN "duplicate_in_upload"
       ELSE "none"

\* C14: the checks of a data row short-circuit in the order field count,
\* required fields, salary format, duplicate in the upload: a processed row
\* that fails one of them has exactly one error entry, that of the first it
\* fails, so a row of five columns or more with a blank field has the
\* required-field error whichever field is blank and whatever its salary
\* text and code; a row rejected though it fails none of the four has the
\* model-validation error.
C14_ValidationOrder ==
    \A p \in Procs :
        Uploading(p) =>
            LET u == upload[p]
            IN \A i \in 1..u.row_number :
                  LET es == {k \in 1..Len(u.error_entries) :
                                u.error_entries[k].row = i + 1}
                  IN IF FirstFailure(p, i) = "none"
                     THEN \A k \in es :
                             u.error_entries[k].error.kind = "validation_error"
                     ELSE /\ Cardinality(es) = 1
                          /\ \A k \in es :
                                u.error_entries[k].error.kind = FirstFailure(p, i)

\* Three rows were processed: a blank name with the salary text 'inf', a
\* row that was staged, and a blank position with the staged row's code and
\* a valid salary: both blank rows have the required-field error.
C14_Witness ==
    /\ Uploading(1) /\ upload[1].row_number = 3
    /\ LET rows == DataRows(request[1].file)
       IN /\ Len(rows[1]) >= 5 /\ Strip(rows[1][1]) = <<>>
          /\ Strip(rows[1][5]) = <<"i", "n", "f">>
          /\ RowPasses(rows[2])
          /\ Len(rows[3]) >= 5 /\ Strip(rows[3][3]) = <<>>
          /\ Strip(rows[3][2]) = Strip(rows[2][2])
          /\ SalaryCheck(Strip(rows[3][5])).raised = "none"
    /\ Len(upload[1].session_new) = 1
    /\ Len(upload[1].error_entries) = 2
    /\ \A k \in 1..2 : upload[1].error_entries[k].error.kind = "required_fields"

\* The step in which p's loop passes over one data row.
RowStep(p) == Uploading(p) /\ pc[p] = "rows"

\* C15: a pass of the loop that rejects its row (an error entry is added,
\* for whichever reason, the model validation included) leaves the staged
\* objects, the seen codes, the success count and the table as they were;
\* the seen codes are at all times the codes of the staged objects, and a
\* row that passes every validation and whose code no staged object
\* carries is staged, whether or not rejected rows before it carried the
\* code.
C15_RejectedRowLeavesNoTrace ==
    [][\A p \in Procs :
          RowStep(p) =>
             LET u == upload[p]
                 v == upload'[p]
                 row == DataRows(request[p].file)[u.row_number + 1]
             IN /\ Len(v.error_entries) > Len(u.error_entries) =>
                      /\ v.session_new = u.session_new
                      /\ v.current_batch_codes = u.current_batch_codes
                      /\ v.success_count = u.success_count
                /\ v.current_batch_codes =
                      {v.session_new[i].employee_code : i \in 1..Len(v.session_new)}
                /\ (RowPasses(row) /\ Strip(row[2]) \notin StagedCodes(p)) =>
                      v.session_new = Append(u.session_new, RowData(row))
                /\ store' = store
      ]_vars

\* The first row was rejected by the model validation (its salary
\* truncates to 0), the second, with the same code, is staged.
C15_Witness ==
    /\ Uploading(1) /\ upload[1].row_number = 2
    /\ LET rows == DataRows(request[1].file)
       IN /\ Len(rows[1]) >= 5 /\ Len(rows[2]) >= 5
          /\ FirstFailure(1, 1) = "none" /\ ~RowPasses(rows[1])
          /\ RowPasses(rows[2])
          /\ Strip(rows[2][2]) = Strip(rows[1][2])
          /\ upload[1].session_new = <<RowData(rows[2])>>
    /\ Len(upload[1].error_entries) = 1
    /\ upload[1].error_entries[1].error.kind = "validation_error"
    /\ upload[1].error_entries[1].row = 2

\* C16: an upload that passed the header check attempts its commit exactly
\* once, after every data row was processed, and never again: the request
\* ends only through its commit step, the commit step is taken with all
\* rows processed and is followed by the response, and no other step of
\* the request touches the table.
C16_CommitExactlyOnce ==
    [][\A p \in Procs :
          (request'[p].op = "bulk_upload" /\ ~Fatal(request'[p].file)) =>
             /\ (pc[p] # "done" /\ pc'[p] = "done") => pc[p] = "commit"
             /\ pc[p] = "commit" =>
                   upload[p].row_number = Len(DataRows(request[p].file))
             /\ (pc[p] = "commit" /\ pc'[p] # "commit") =>
                   pc'[p] = "done" /\ response'[p].status = 200
             /\ pc[p] # "commit" => store' = store
      ]_vars

SingleRecordOps == {"create_employee", "update_employee", "delete_employee"}

\* C17: a failing single-record operation leaves the table as it is: every
\* step that ends a create, update or delete request with an error status
\* leaves every row untouched; a create (of a body the models accept) whose
\* code is in the table fails with the duplicate-code error; an update or a
\* delete of an id the table does not hold fails with not-found; an update
\* that changes the code to one another row holds fails with the
\* duplicate-code error and the target row keeps all its values.
C17_FailureLeavesStore ==
    [][\A p \in Procs :
          LET q == request'[p]
          IN /\ (/\ q.op \in SingleRecordOps
                 /\ pc[p] # "done" /\ pc'[p] = "done"
                 /\ response'[p].status >= 400) => store' = store
             /\ (/\ pc[p] = "idle" /\ q.op = "create_employee"
                 /\ EmployeeCreateValid(q.employee) /\ q.employee.salary > 0
                 /\ q.employee.employee_code \in CodesOf(store)) =>
                   /\ response'[p] = HTTPException(400, "code exists")
                   /\ store' = store
             /\ (/\ pc[p] = "idle" /\ q.op = "update_employee"
                 /\ EmployeeCreateValid(q.employee_update)
                 /\ q.employee_id \notin IdsOf(store)) =>
                   /\ response'[p] = HTTPException(404, "Employee not found")
                   /\ store' = store
             /\ (/\ pc[p] = "update" /\ pc'[p] = "done"
                 /\ old_employee[p].id \in IdsOf(store)
                 /\ q.employee_update.employee_code # old_employee[p].employee_code
                 /\ \E r \in store :
                       /\ r.id # old_employee[p].id
                       /\ r.employee_code = q.employee_update.employee_code) =>
                   /\ response'[p] = HTTPException(400, "code in use")
                   /\ store' = store
             /\ (/\ pc[p] = "idle" /\ q.op = "delete_employee"
                 /\ q.employee_id \notin IdsOf(store)) =>
                   /\ response'[p] = HTTPException(404, "Employee not found")
                   /\ store' = store
      ]_vars

\* An update that would have changed the code of the second row to the code
\* of the first, and its salary too, was refused: the row has its code and
\* its salary.
C17_Witness ==
    \E p \in Procs :
        /\ pc[p] = "done" /\ request[p].op = "update_employee"
        /\ response[p] = HTTPException(400, "code in use")
        /\ \E r, o \in store :
              /\ r.id = request[p].employee_id /\ o.id # r.id
              /\ o.employee_code = request[p].employee_update.employee_code
              /\ r.employee_code # o.employee_code
              /\ r.salary # request[p].employee_update.salary
              /\ r = old_employee[p]

=============================================================================
